---- MODULE Spec2Model ----
(***************************************************************************)
(* Connectly: OAuth session and token lifecycle (accounts/utils.py and the *)
(* login, callback and disconnect views of the linkedIn and twitter apps). *)
(*                                                                         *)
(* The database tables are sets of rows.  Django runs in autocommit mode,  *)
(* so every ORM statement is one atomic step and a request handler is a    *)
(* sequence of such steps; requests of different slots interleave freely.  *)
(* Time is counted in seconds.  An optional value (Python None) is the     *)
(* empty tuple <<>>, a present value v is <<v>>.  Strings that the code    *)
(* encrypts are tuples of bytes.                                           *)
(***************************************************************************)
EXTENDS Integers, Sequences, FiniteSets, TLC

\* ------------------------------------------------------------------ bounds
MaxRequests == 2      \* request handlers that can be in flight together
MaxSessions == 2      \* OAuth states issued in one behaviour of SerialSpec
MaxRaceSessions == 1  \* OAuth states issued in one behaviour of Spec
MaxTimedSessions == 2 \* OAuth states issued in one behaviour of TimedSpec
MaxOwnerSessions == 1 \* OAuth states issued in one behaviour of DisconnectSpec
MaxAccounts == 2      \* SocialMediaAccount primary keys issued in one behaviour
MaxProfileSessions == 2 \* OAuth states issued in one behaviour of ProfileSpec
MaxReconnectSessions == 2 \* OAuth states issued in one behaviour of
                          \* ReconnectSpec
MaxReconnectLogs == 1  \* APICallLog rows stored at one time in ReconnectSpec
MaxApiSessions == 1   \* OAuth states issued in one behaviour of ApiSpec
MaxApiLogs == 2       \* APICallLog rows stored at one time in ApiSpec
MaxOwnerRows == 1     \* log, analytics and content rows stored at one time in
                      \* DisconnectSpec
MaxStateSessions == 2 \* SessionData rows created in one behaviour of StateSpec
MaxCascadeSessions == 1 \* OAuth states issued in one behaviour of CascadeSpec
MaxCascadeRows == 1   \* APICallLog rows, and UserAnalytics rows, stored at one
                      \* time in CascadeSpec
MaxStaleSessions == 2 \* OAuth states issued in one behaviour of StaleSpec
MaxStaleLogs == 1     \* APICallLog rows stored at one time in StaleSpec
MaxLoginSessions == 3 \* OAuth states issued in one behaviour of LoginSpec
MaxFrameSessions == 2 \* OAuth states issued in one behaviour of FrameSpec
MaxFrameLogs == 1     \* APICallLog rows stored at one time in FrameSpec
MaxTokenLen == 4      \* characters of a token in CodecSpec
MaxKeyLen == 2        \* bytes of a secret key in CodecSpec
TickSeconds == 1800   \* how far one step of the clock advances
MaxTime == 3600       \* the clock stops here

\* --------------------------------------------------------------- constants
SessionTTLMinutes == 30
HTTP_OK == 200

Users == {"u1", "u2"}
Platforms == {"linkedin", "twitter"}
PlatformUserIds == {"a", "b"}
Reqs == 1..MaxRequests

SECRET_KEY == <<115, 107>>
\* what a token endpoint grants: access token, refresh token (absent or
\* present) and expires_in in seconds (absent or present)
Grants ==
    {[access_token |-> <<116, 49>>, refresh_token |-> <<>>, expires_in |-> <<>>],
     [access_token |-> <<116, 50, 120>>, refresh_token |-> <<114>>,
      expires_in |-> <<1200>>]}

\* -------------------------------------------------------------- the codec
RECURSIVE BitXor(_, _)
BitXor(a, b) ==
    IF a = 0 THEN b
    ELSE IF b = 0 THEN a
    ELSE (((a % 2) + (b % 2)) % 2) + 2 * BitXor(a \div 2, b \div 2)

\* key * (len(token_bytes) // len(key) + 1), read at position i (1-based)
KeyStream(key, n, i) ==
    LET reps == (n \div Len(key)) + 1
        long == [j \in 1..(reps * Len(key)) |-> key[((j - 1) % Len(key)) + 1]]
    IN long[i]

\* the XOR taken against the key as it is, not repeated: zip stops at the
\* shorter of the two
XorBytes_key_once(bytes, key) ==
    LET n == IF Len(bytes) < Len(key) THEN Len(bytes) ELSE Len(key)
    IN  [i \in 1..n |-> BitXor(bytes[i], key[i])]

\* bytes(a ^ b for a, b in zip(token_bytes, key * ...))
XorBytes(bytes, key) ==
    [i \in 1..Len(bytes) |-> BitXor(bytes[i], KeyStream(key, Len(bytes), i))]

Pad == 64     \* the '=' of base64, after the 64 alphabet positions 0..63

\* base64.b64encode: three bytes make four sextets, the tail is padded
RECURSIVE B64Encode(_)
B64Encode(bytes) ==
    IF Len(bytes) = 0 THEN <<>>
    ELSE IF Len(bytes) = 1 THEN
        << bytes[1] \div 4, ((bytes[1] % 4) * 16), Pad, Pad >>
    ELSE IF Len(bytes) = 2 THEN
        << bytes[1] \div 4,
           ((bytes[1] % 4) * 16) + (bytes[2] \div 16),
           ((bytes[2] % 16) * 4),
           Pad >>
    ELSE
        << bytes[1] \div 4,
           ((bytes[1] % 4) * 16) + (bytes[2] \div 16),
           ((bytes[2] % 16) * 4) + (bytes[3] \div 64),
           bytes[3] % 64 >> \o B64Encode(SubSeq(bytes, 4, Len(bytes)))

\* what b64decode accepts: whole quads, padding only at the very end
B64WellFormed(text) ==
    /\ Len(text) % 4 = 0
    /\ \A i \in 1..Len(text) :
          text[i] = Pad =>
              /\ i >= Len(text) - 1
              /\ \A j \in i..Len(text) : text[j] = Pad

\* base64.b64decode of a well-formed text
RECURSIVE B64Decode(_)
B64Decode(text) ==
    IF Len(text) = 0 THEN <<>>
    ELSE
        LET q == SubSeq(text, 1, 4)
            rest == SubSeq(text, 5, Len(text))
            b1 == (q[1] * 4) + (IF q[2] = Pad THEN 0 ELSE q[2] \div 16)
            b2 == ((q[2] % 16) * 16) + (IF q[3] = Pad THEN 0 ELSE q[3] \div 4)
            b3 == ((q[3] % 4) * 64) + (IF q[4] = Pad THEN 0 ELSE q[4])
        IN  IF q[3] = Pad THEN <<b1>>
            ELSE IF q[4] = Pad THEN <<b1, b2>>
            ELSE <<b1, b2, b3>> \o B64Decode(rest)

\* bytes.decode(): the tokens of the model are ASCII, a byte above 127 that
\* starts no valid sequence makes decode() raise
Utf8Ok(bytes) == \A i \in 1..Len(bytes) : bytes[i] < 128

\* encrypt_token under the key settings.SECRET_KEY.encode()
encrypt_token_under(token, key) ==
    IF token = <<>> THEN <<>>
    ELSE B64Encode(XorBytes(token, key))

\* decrypt_token under the key settings.SECRET_KEY.encode(); any exception
\* gives ""
decrypt_token_under(encrypted_token, key) ==
    IF encrypted_token = <<>> THEN <<>>
    ELSE IF ~B64WellFormed(encrypted_token) THEN <<>>
    ELSE LET decrypted == XorBytes(B64Decode(encrypted_token), key)
         IN  IF Utf8Ok(decrypted) THEN decrypted ELSE <<>>

encrypt_token(token) == encrypt_token_under(token, SECRET_KEY)

decrypt_token(encrypted_token) ==
    decrypt_token_under(encrypted_token, SECRET_KEY)

\* ------------------------------------------------------------------ state
VARIABLES
    now,            \* timezone.now(), in seconds
    accounts,       \* SocialMediaAccount rows
    sessions,       \* SessionData rows
    platformRows,   \* LinkedInProfile, TwitterProfile and platform content rows
    apilogs,        \* APICallLog rows, in the order of their primary keys
    analytics,      \* UserAnalytics rows
    req,            \* the request handler running in each slot, with its locals
    response,       \* what the last step answered to its client, "" if nothing
    nextAccountId,  \* next SocialMediaAccount primary key
    nextSession,    \* next SessionData primary key, also the next random state
    location,       \* the authorization URL the last step redirected to, if any
    query           \* the state parameter of the callback the last step took
                    \* in, if any

db == <<accounts, sessions, platformRows, apilogs, analytics>>
vars == <<now, accounts, sessions, platformRows, apilogs, analytics, req,
          response, nextAccountId, nextSession, location, query>>

\* a handler slot with no request in it
Idle ==
    [kind |-> "none", pc |-> "idle", user |-> "u1", platform |-> "linkedin",
     session |-> <<>>, access_token |-> <<>>, refresh_token |-> <<>>,
     expires_in |-> <<>>, profile_id |-> <<>>,
     user_data |-> [name |-> <<>>, email |-> <<>>], account |-> <<>>,
     created |-> FALSE, revoke |-> "none", deleted |-> 0, idx |-> 0]

\* ------------------------------------------------------- SessionData model
\* is_expired with the comparison taken to be inclusive
is_expired_inclusive(session, t) == t >= session.expires_at

\* SessionData.is_expired
is_expired(session, t) == t > session.expires_at

\* create_oauth_session with its lifetime counted in hours
create_oauth_session_hours(id, user, platform, state, code_verifier, t) ==
    [id |-> id, user |-> user, oauth_state |-> state,
     code_verifier |-> code_verifier, platform |-> platform,
     social_account |-> <<>>,
     expires_at |-> t + SessionTTLMinutes * 3600]

\* SessionManager.create_oauth_session: the row it inserts
create_oauth_session(id, user, platform, state, code_verifier, t) ==
    [id |-> id, user |-> user, oauth_state |-> state,
     code_verifier |-> code_verifier, platform |-> platform,
     social_account |-> <<>>,
     expires_at |-> t + SessionTTLMinutes * 60]

\* hashlib.sha256(data).digest(): the digest is taken as a one-to-one map of
\* the bytes of its input
sha256(data) == [i \in 1..Len(data) |-> (data[i] * 5 + 3) % 256]

\* str.rstrip('='): the padding at the end of a base64 text is dropped
rstrip_pad(text) == SelectSeq(text, LAMBDA c : c # Pad)

\* a challenge that is the verifier itself (the "plain" method of PKCE)
code_challenge_plain(code_verifier) == code_verifier

\* twitter_login: code_challenge = urlsafe_b64encode(sha256(code_verifier
\* .encode()).digest()).decode().rstrip('=')
code_challenge(code_verifier) == rstrip_pad(B64Encode(sha256(code_verifier)))

\* the authorization URL a login view redirects to: the platform's endpoint
\* and the query parameters state, code_challenge and code_challenge_method
\* (twitter only)
authorization_url(platform, state, code_verifier) ==
    [platform |-> platform, state |-> state,
     code_challenge |->
         IF platform = "twitter" THEN <<code_challenge(code_verifier)>>
         ELSE <<>>,
     code_challenge_method |->
         IF platform = "twitter" THEN <<"S256">> ELSE <<>>]

\* get_oauth_session without its except clause: DoesNotExist leaves the view
get_oauth_session_uncaught(state, table, t) ==
    LET found == {s \in table : s.oauth_state = state}
    IN  IF Cardinality(found) # 1 THEN
            [session |-> <<>>, raised |-> TRUE, sessions |-> table]
        ELSE LET session == CHOOSE s \in found : TRUE
             IN  IF is_expired(session, t)
                 THEN [session |-> <<>>, raised |-> FALSE,
                       sessions |-> {s \in table : s.id # session.id}]
                 ELSE [session |-> <<session>>, raised |-> FALSE,
                       sessions |-> table]

\* SessionManager.get_oauth_session: the session returned (raised is TRUE when
\* objects.get finds several rows) and the table afterwards
get_oauth_session(state, table, t) ==
    LET found == {s \in table : s.oauth_state = state}
    IN  IF found = {} THEN
            [session |-> <<>>, raised |-> FALSE, sessions |-> table]
        ELSE IF Cardinality(found) > 1 THEN
            [session |-> <<>>, raised |-> TRUE, sessions |-> table]
        ELSE LET session == CHOOSE s \in found : TRUE
             IN  IF is_expired(session, t)
                 THEN [session |-> <<>>, raised |-> FALSE,
                       sessions |-> {s \in table : s.id # session.id}]
                 ELSE [session |-> <<session>>, raised |-> FALSE,
                       sessions |-> table]

\* a cleanup that filters the sessions by their user only
cleanup_user_sessions(user, platform, table) ==
    {s \in table : s.user # user}

\* SessionManager.cleanup_user_platform_sessions, and the same filter().delete()
\* at the head of both login views
cleanup_user_platform_sessions(user, platform, table) ==
    {s \in table : ~(s.user = user /\ s.platform = platform)}

\* cleanup_expired_sessions taking the second of expiry for expired
cleanup_expired_sessions_inclusive(table, t) ==
    {s \in table : ~(s.expires_at <= t)}

\* SessionManager.cleanup_expired_sessions: the table after
\* filter(expires_at__lt=now).delete()
cleanup_expired_sessions(table, t) ==
    {s \in table : ~(s.expires_at < t)}

\* session_data.delete(): a delete by primary key
DeleteSession(session, table) == {s \in table : s.id # session.id}

\* ---------------------------------------------------------- callback views
\* linkedin_callback, the session checks: what the view answers ("" when it
\* goes on to the token exchange) and the SessionData table afterwards
linkedin_verify(user, state, table, t) ==
    LET got == get_oauth_session(state, table, t)
    IN  IF got.raised THEN
            [outcome |-> "server_error", session |-> <<>>, sessions |-> got.sessions]
        ELSE IF got.session = <<>> THEN
            [outcome |-> "invalid_or_expired_session", session |-> <<>>,
             sessions |-> got.sessions]
        ELSE IF got.session[1].user # user THEN
            [outcome |-> "session_not_owned", session |-> <<>>,
             sessions |-> DeleteSession(got.session[1], got.sessions)]
        ELSE [outcome |-> "", session |-> got.session, sessions |-> got.sessions]

\* a session check that does not compare the owner of the session
twitter_verify_any_owner(user, state, table, t) ==
    LET got == get_oauth_session(state, table, t)
    IN  IF got.raised THEN
            [outcome |-> "server_error", session |-> <<>>, sessions |-> got.sessions]
        ELSE IF got.session = <<>> THEN
            [outcome |-> "invalid_session", session |-> <<>>,
             sessions |-> got.sessions]
        ELSE [outcome |-> "", session |-> got.session, sessions |-> got.sessions]

\* twitter_callback, the session check
twitter_verify(user, state, table, t) ==
    LET got == get_oauth_session(state, table, t)
    IN  IF got.raised THEN
            [outcome |-> "server_error", session |-> <<>>, sessions |-> got.sessions]
        ELSE IF got.session = <<>> \/ got.session[1].user # user THEN
            [outcome |-> "invalid_session", session |-> <<>>,
             sessions |-> got.sessions]
        ELSE [outcome |-> "", session |-> got.session, sessions |-> got.sessions]

callback_verify(platform, user, state, table, t) ==
    IF platform = "linkedin" THEN linkedin_verify(user, state, table, t)
    ELSE twitter_verify(user, state, table, t)


\* ------------------------------------------------- SocialMediaAccount model
\* store_tokens: expires_at, left unset when expires_in is falsy (None or 0)
token_expiry(expires_in, t) ==
    IF expires_in = <<>> THEN <<>>
    ELSE IF expires_in[1] = 0 THEN <<>>
    ELSE <<t + expires_in[1]>>

\* is_token_expired taking an account without an expiry for expired
is_token_expired_unset(account, t) ==
    IF account.token_expires_at = <<>> THEN t > 0
    ELSE t > account.token_expires_at[1]

\* SocialMediaAccount.is_token_expired
is_token_expired(account, t) ==
    IF account.token_expires_at = <<>> THEN FALSE
    ELSE t > account.token_expires_at[1]

\* Meta.unique_together = [user, platform, platform_user_id]: may row be stored?
unique_together(row, table) ==
    \A a \in table :
        a.id # row.id =>
            ~(/\ a.user = row.user
              /\ a.platform = row.platform
              /\ a.platform_user_id = row.platform_user_id)

\* SocialMediaAccount.objects.get(user, platform, platform_user_id)
account_by_key(user, platform, platform_user_id, table) ==
    {a \in table : /\ a.user = user
                   /\ a.platform = platform
                   /\ a.platform_user_id = platform_user_id}

\* user_data.get(key, default): a key of user_data is absent (<<>>) or holds
\* a string, which may be empty
dict_get(field, default) == IF field = <<>> THEN default ELSE field[1]

\* the display fields of user_data as each callback view fills them: the
\* name under 'name' for both platforms (default ''), the email under 'email'
\* for linkedin only
view_user_data(platform, profile) ==
    [name |-> <<profile.name>>,
     email |-> IF platform = "linkedin" THEN <<profile.email>> ELSE <<>>]

\* TokenManager.get_user_social_account: objects.get(user, platform,
\* status='active'); DoesNotExist is caught, MultipleObjectsReturned is not
get_user_social_account(user, platform, table) ==
    LET found == {a \in table : /\ a.user = user
                                /\ a.platform = platform
                                /\ a.status = "active"}
    IN  IF found = {} THEN [account |-> <<>>, raised |-> FALSE]
        ELSE IF Cardinality(found) = 1
        THEN [account |-> <<CHOOSE a \in found : TRUE>>, raised |-> FALSE]
        ELSE [account |-> <<>>, raised |-> TRUE]

\* store_tokens updating an account without touching its status
account_updated_status_kept(account, user_data, access_token, refresh_token, expires_in, t) ==
    [account EXCEPT
        !.display_name = dict_get(user_data.name, account.display_name),
        !.email = dict_get(user_data.email, account.email),
        !.access_token = encrypt_token(access_token),
        !.refresh_token =
            IF refresh_token # <<>> THEN encrypt_token(refresh_token) ELSE <<>>,
        !.token_expires_at = token_expiry(expires_in, t)]

\* store_tokens, the fields it sets on the account it found
account_updated(account, user_data, access_token, refresh_token, expires_in, t) ==
    [account EXCEPT
        !.display_name = dict_get(user_data.name, account.display_name),
        !.email = dict_get(user_data.email, account.email),
        !.access_token = encrypt_token(access_token),
        !.refresh_token =
            IF refresh_token # <<>> THEN encrypt_token(refresh_token) ELSE <<>>,
        !.token_expires_at = token_expiry(expires_in, t),
        !.status = "active"]

\* account_new storing the tokens as they were issued
account_new_plaintext(id, user, platform, platform_user_id, user_data, access_token, refresh_token, expires_in, t) ==
    [id |-> id, user |-> user, platform |-> platform,
     platform_user_id |-> platform_user_id,
     display_name |-> dict_get(user_data.name, ""),
     email |-> dict_get(user_data.email, ""),
     access_token |-> access_token,
     refresh_token |-> refresh_token,
     token_expires_at |-> token_expiry(expires_in, t),
     status |-> "active"]

\* store_tokens, the row objects.create() is given
account_new(id, user, platform, platform_user_id, user_data, access_token, refresh_token, expires_in, t) ==
    [id |-> id, user |-> user, platform |-> platform,
     platform_user_id |-> platform_user_id,
     display_name |-> dict_get(user_data.name, ""),
     email |-> dict_get(user_data.email, ""),
     access_token |-> encrypt_token(access_token),
     refresh_token |->
         IF refresh_token # <<>> THEN encrypt_token(refresh_token) ELSE <<>>,
     token_expires_at |-> token_expiry(expires_in, t),
     status |-> "active"]

\* objects.create() on a table without the unique key
account_create_unchecked(row, table) ==
    [raised |-> FALSE, accounts |-> table \cup {row}]

\* objects.create(): an INSERT, refused (IntegrityError) by the unique key
account_create(row, table) ==
    IF unique_together(row, table)
    THEN [raised |-> FALSE, accounts |-> table \cup {row}]
    ELSE [raised |-> TRUE, accounts |-> table]

\* Model.save() of a loaded instance: UPDATE by primary key, and an INSERT of
\* the instance when the UPDATE matched no row
account_save(row, table) ==
    IF \E a \in table : a.id = row.id
    THEN [raised |-> FALSE,
          accounts |-> {a \in table : a.id # row.id} \cup {row}]
    ELSE account_create(row, table)

\* the profile table of a platform's callback view
ProfileTable(platform) ==
    IF platform = "linkedin" THEN "LinkedInProfile" ELSE "TwitterProfile"

\* LinkedInProfile / TwitterProfile .objects.get_or_create(social_account=...):
\* the row has a foreign key to the account, which must exist for an INSERT
profile_get_or_create(account, platform, rows, table) ==
    LET row == [social_account |-> account.id, table |-> ProfileTable(platform)]
    IN  IF row \in rows THEN [raised |-> FALSE, rows |-> rows]
        ELSE IF \E a \in table : a.id = account.id
        THEN [raised |-> FALSE, rows |-> rows \cup {row}]
        ELSE [raised |-> TRUE, rows |-> rows]

\* ------------------------------------------------------------ the platform
\* answers of the token endpoint; status 0 stands for requests raising
TokenResponses(G) ==
    {[status |-> st, access_token |-> <<>>, refresh_token |-> <<>>,
      expires_in |-> <<>>] : st \in {0, 400, HTTP_OK}}
    \cup
    {[status |-> HTTP_OK, access_token |-> g.access_token,
      refresh_token |-> g.refresh_token, expires_in |-> g.expires_in] :
        g \in G}

\* answers of the profile endpoint: the status, the platform's user id, and
\* the name and email of the profile, each out of N ("" when the answer has
\* none)
NamedProfileResponses(N) ==
    {[status |-> st, id |-> <<>>, name |-> "", email |-> ""] :
        st \in {0, 400, HTTP_OK}}
    \cup {[status |-> HTTP_OK, id |-> <<i>>, name |-> n, email |-> e] :
              i \in PlatformUserIds, n \in N, e \in N}

\* the answers of a profile without name and email
ProfileResponses == NamedProfileResponses({""})

\* the answers a callback can meet: a token answer without a token ends the
\* flow whatever the profile endpoint would say
NamedExchanges(I, G, N) ==
    {[token |-> t, profile |-> f] :
        t \in {x \in TokenResponses(G) : x.access_token = <<>>},
        f \in {[status |-> 0, id |-> <<>>, name |-> "", email |-> ""]}}
    \cup
    {[token |-> t, profile |-> f] :
        t \in {x \in TokenResponses(G) : x.access_token # <<>>},
        f \in {x \in NamedProfileResponses(N) :
                  IF x.id = <<>> THEN TRUE ELSE x.id[1] \in I}}

Exchanges(I, G) == NamedExchanges(I, G, {""})

\* the query strings of a callback: an error parameter, a missing code, a
\* missing state (0), or a code with a state out of 1..limit
Queries(limit) ==
    {[error |-> TRUE, code |-> TRUE, state |-> 1],
     [error |-> FALSE, code |-> FALSE, state |-> 1],
     [error |-> FALSE, code |-> TRUE, state |-> 0]}
    \cup {[error |-> FALSE, code |-> TRUE, state |-> n] : n \in 1..limit}

\* ------------------------------------------------- the codec on its own
\* the tokens: strings of at most MaxTokenLen characters, "" included
Tokens == UNION {[1..k -> {65, 122}] : k \in 0..MaxTokenLen}

\* the non-empty secret keys, as bytes
SecretKeys == UNION {[1..k -> {107, 195}] : k \in 1..MaxKeyLen}

\* a token about to be encrypted under a secret key
CodecInit ==
    /\ now = 0
    /\ accounts = {}
    /\ sessions = {}
    /\ platformRows = {}
    /\ apilogs = <<>>
    /\ analytics = {}
    /\ \E token \in Tokens, key \in SecretKeys :
          req = [r \in Reqs |->
                    IF r = 1
                    THEN [kind |-> "codec", pc |-> "token", key |-> key,
                          token |-> token, encrypted_token |-> <<>>,
                          decrypted |-> <<>>]
                    ELSE [kind |-> "none", pc |-> "idle"]]
    /\ response = ""
    /\ nextAccountId = 1
    /\ nextSession = 1
    /\ location = <<>>
    /\ query = <<>>

\* TokenManager.encrypt_token(token)
EncryptToken(r) ==
    /\ req[r].pc = "token"
    /\ req' = [req EXCEPT ![r].pc = "encrypted",
                          ![r].encrypted_token =
                              encrypt_token_under(req[r].token, req[r].key)]
    /\ UNCHANGED <<now, db, response, nextAccountId, nextSession, location,
                   query>>

\* TokenManager.decrypt_token(encrypted_token)
DecryptToken(r) ==
    /\ req[r].pc = "encrypted"
    /\ req' = [req EXCEPT ![r].pc = "decrypted",
                          ![r].decrypted =
                              decrypt_token_under(req[r].encrypted_token,
                                                  req[r].key)]
    /\ UNCHANGED <<now, db, response, nextAccountId, nextSession, location,
                   query>>

CodecNext == EncryptToken(1) \/ DecryptToken(1)

CodecSpec == CodecInit /\ [][CodecNext]_vars

\* ---------------------------------------------------------------- actions
Init ==
    /\ now = 0
    /\ accounts = {}
    /\ sessions = {}
    /\ platformRows = {}
    /\ apilogs = <<>>
    /\ analytics = {}
    /\ req = [r \in Reqs |-> Idle]
    /\ response = ""
    /\ nextAccountId = 1
    /\ nextSession = 1
    /\ location = <<>>
    /\ query = <<>>

\* a step that neither redirects to an authorization URL nor takes in a
\* callback
Inner ==
    /\ location' = <<>>
    /\ query' = <<>>

\* the handler of slot r answers and the slot is free again
Respond(r, outcome) ==
    /\ req' = [req EXCEPT ![r] = Idle]
    /\ response' = outcome

\* the handler of slot r goes on to its next step
Continue(r, locals, pc) ==
    /\ req' = [req EXCEPT ![r] = [locals EXCEPT !.pc = pc]]
    /\ response' = ""

Finish(r, outcome) == Respond(r, outcome) /\ Inner

Goto(r, locals, pc) == Continue(r, locals, pc) /\ Inner

\* time passes
Tick ==
    /\ now + TickSeconds <= MaxTime
    /\ now' = now + TickSeconds
    /\ response' = ""
    /\ Inner
    /\ UNCHANGED <<db, req, nextAccountId, nextSession>>

\* a login view that leaves the sessions of earlier attempts in place
Login_no_cleanup(r, user, platform) ==
    /\ req[r].pc = "idle"
    /\ sessions' = sessions
    /\ Goto(r, [Idle EXCEPT !.kind = "login", !.user = user,
                            !.platform = platform], "create_session")
    /\ UNCHANGED <<now, accounts, platformRows, apilogs, analytics,
                   nextAccountId, nextSession>>

\* linkedin_login / twitter_login arrive: the stale sessions are deleted
Login(r, user, platform) ==
    /\ req[r].pc = "idle"
    /\ sessions' = cleanup_user_platform_sessions(user, platform, sessions)
    /\ Goto(r, [Idle EXCEPT !.kind = "login", !.user = user,
                            !.platform = platform], "create_session")
    /\ UNCHANGED <<now, accounts, platformRows, apilogs, analytics,
                   nextAccountId, nextSession>>

\* linkedin_login / twitter_login: a fresh state (and PKCE verifier for
\* twitter), the session row, and the redirect to the authorization URL
LoginCreateSession(r, limit) ==
    /\ req[r].pc = "create_session"
    /\ nextSession <= limit
    /\ LET state == nextSession
           code_verifier == IF req[r].platform = "twitter"
                            THEN <<nextSession>> ELSE <<>>
       IN  /\ sessions' = sessions \cup
                  {create_oauth_session(nextSession, req[r].user,
                       req[r].platform, state, code_verifier, now)}
           /\ location' = <<authorization_url(req[r].platform, state,
                                               code_verifier)>>
    /\ query' = <<>>
    /\ nextSession' = nextSession + 1
    /\ Respond(r, "redirect_to_authorization")
    /\ UNCHANGED <<now, accounts, platformRows, apilogs, analytics,
                   nextAccountId>>

\* linkedin_callback / twitter_callback arrive: the query parameters are
\* checked, the session is looked up and its owner compared
Callback(r, user, platform, error, code, state) ==
    /\ req[r].pc = "idle"
    /\ location' = <<>>
    /\ query' = <<state>>
    /\ IF error THEN
            /\ Respond(r, "authorization_failed")
            /\ UNCHANGED sessions
       ELSE IF ~code \/ state = 0 THEN
            /\ Respond(r, "invalid_callback")
            /\ UNCHANGED sessions
       ELSE LET v == callback_verify(platform, user, state, sessions, now)
            IN  /\ sessions' = v.sessions
                /\ IF v.outcome # "" THEN Respond(r, v.outcome)
                   ELSE Continue(r, [Idle EXCEPT !.kind = "callback",
                                         !.user = user, !.platform = platform,
                                         !.session = v.session], "exchange")
    /\ UNCHANGED <<now, accounts, platformRows, apilogs, analytics,
                   nextAccountId, nextSession>>

\* a callback that stores the tokens whatever the profile endpoint answered
CallbackExchange_profile_unchecked(r, token, profile) ==
    /\ req[r].pc = "exchange"
    /\ IF token.status = 0 THEN Finish(r, "error_connecting")
       ELSE IF token.status # HTTP_OK THEN Finish(r, "token_exchange_failed")
       ELSE IF token.access_token = <<>> THEN Finish(r, "no_access_token")
       ELSE Goto(r, [req[r] EXCEPT
                        !.access_token = token.access_token,
                        !.refresh_token =
                            IF req[r].platform = "twitter"
                            THEN token.refresh_token ELSE <<>>,
                        !.expires_in = token.expires_in,
                        !.profile_id = profile.id,
                        !.user_data =
                            view_user_data(req[r].platform, profile)],
                 "store_tokens")
    /\ UNCHANGED <<now, db, nextAccountId, nextSession>>

\* a callback that deletes its session when the exchange fails
CallbackExchange_session_dropped(r, token, profile) ==
    /\ req[r].pc = "exchange"
    /\ LET failed == \/ token.status # HTTP_OK
                     \/ token.access_token = <<>>
                     \/ profile.status # HTTP_OK
       IN  IF failed
           THEN /\ Finish(r, "error_connecting")
                /\ sessions' = DeleteSession(req[r].session[1], sessions)
           ELSE /\ Goto(r, [req[r] EXCEPT
                               !.access_token = token.access_token,
                               !.refresh_token =
                                   IF req[r].platform = "twitter"
                                   THEN token.refresh_token ELSE <<>>,
                               !.expires_in = token.expires_in,
                               !.profile_id = profile.id,
                               !.user_data =
                                   view_user_data(req[r].platform, profile)],
                        "store_tokens")
                /\ UNCHANGED sessions
    /\ UNCHANGED <<now, accounts, platformRows, apilogs, analytics,
                   nextAccountId, nextSession>>

\* twitter_callback: the PKCE part of token_data, the form it posts to the
\* token endpoint
token_data(locals) == [code_verifier |-> locals.session[1].code_verifier]

\* the callback posts the code to the token endpoint and fetches the profile
CallbackExchange(r, token, profile) ==
    /\ req[r].pc = "exchange"
    /\ IF token.status = 0 THEN Finish(r, "error_connecting")
       ELSE IF token.status # HTTP_OK THEN Finish(r, "token_exchange_failed")
       ELSE IF token.access_token = <<>> THEN Finish(r, "no_access_token")
       ELSE IF profile.status = 0 THEN Finish(r, "error_connecting")
       ELSE IF profile.status # HTTP_OK THEN Finish(r, "profile_fetch_failed")
       ELSE Goto(r, [req[r] EXCEPT
                        !.access_token = token.access_token,
                        !.refresh_token =
                            IF req[r].platform = "twitter"
                            THEN token.refresh_token ELSE <<>>,
                        !.expires_in = token.expires_in,
                        !.profile_id = profile.id,
                        !.user_data =
                            view_user_data(req[r].platform, profile)],
                 "store_tokens")
    /\ UNCHANGED <<now, db, nextAccountId, nextSession>>

\* store_tokens looking the account up by str(None) when the id is missing
CallbackStoreGet_unchecked(r) ==
    /\ req[r].pc = "store_tokens"
    /\ LET id == IF req[r].profile_id = <<>> THEN "None"
                 ELSE req[r].profile_id[1]
           found == account_by_key(req[r].user, req[r].platform, id, accounts)
       IN  IF found = {}
           THEN Goto(r, [req[r] EXCEPT !.profile_id = <<id>>], "create_account")
           ELSE Goto(r, [req[r] EXCEPT !.account =
                     <<account_updated(CHOOSE a \in found : TRUE,
                         req[r].user_data,
                         req[r].access_token, req[r].refresh_token,
                         req[r].expires_in, now)>>], "save_account")
    /\ UNCHANGED <<now, db, nextAccountId, nextSession>>

\* store_tokens: the identity check (ValueError, which the view reports with
\* its message) and the objects.get() by natural key
CallbackStoreGet(r) ==
    /\ req[r].pc = "store_tokens"
    /\ IF req[r].profile_id = <<>> THEN Finish(r, "error_missing_identity")
       ELSE LET found == account_by_key(req[r].user, req[r].platform,
                                        req[r].profile_id[1], accounts)
            IN  IF found = {} THEN Goto(r, req[r], "create_account")
                ELSE Goto(r, [req[r] EXCEPT !.account =
                          <<account_updated(CHOOSE a \in found : TRUE,
                              req[r].user_data,
                              req[r].access_token, req[r].refresh_token,
                              req[r].expires_in, now)>>], "save_account")
    /\ UNCHANGED <<now, db, nextAccountId, nextSession>>

\* store_tokens: social_account.save() of the account that was found
CallbackStoreSave(r) ==
    /\ req[r].pc = "save_account"
    /\ LET saved == account_save(req[r].account[1], accounts)
       IN  /\ accounts' = saved.accounts
           /\ IF saved.raised THEN Finish(r, "error_connecting")
              ELSE Goto(r, req[r], "profile")
    /\ UNCHANGED <<now, sessions, platformRows, apilogs, analytics,
                   nextAccountId, nextSession>>

\* store_tokens: objects.create() when objects.get() raised DoesNotExist
CallbackStoreCreate(r) ==
    /\ req[r].pc = "create_account"
    /\ nextAccountId <= MaxAccounts
    /\ LET row == account_new(nextAccountId, req[r].user, req[r].platform,
                      req[r].profile_id[1], req[r].user_data,
                      req[r].access_token,
                      req[r].refresh_token, req[r].expires_in, now)
           made == account_create(row, accounts)
       IN  /\ accounts' = made.accounts
           /\ nextAccountId' = IF made.raised THEN nextAccountId
                                ELSE nextAccountId + 1
           /\ IF made.raised THEN Finish(r, "error_connecting")
              ELSE Goto(r, [req[r] EXCEPT !.account = <<row>>,
                                          !.created = TRUE], "profile")
    /\ UNCHANGED <<now, sessions, platformRows, apilogs, analytics,
                   nextSession>>

\* the callback creates or updates the platform profile of the account
CallbackProfile(r) ==
    /\ req[r].pc = "profile"
    /\ LET got == profile_get_or_create(req[r].account[1], req[r].platform,
                                        platformRows, accounts)
       IN  /\ platformRows' = got.rows
           /\ IF got.raised THEN Finish(r, "error_connecting")
              ELSE Goto(r, req[r], "delete_session")
    /\ UNCHANGED <<now, accounts, sessions, apilogs, analytics,
                   nextAccountId, nextSession>>

\* the callback deletes the session it used and reports success
CallbackDeleteSession(r) ==
    /\ req[r].pc = "delete_session"
    /\ sessions' = DeleteSession(req[r].session[1], sessions)
    /\ Finish(r, "connected")
    /\ UNCHANGED <<now, accounts, platformRows, apilogs, analytics,
                   nextAccountId, nextSession>>

\* --------------------------------------------------------------- disconnect
\* the tables disconnect_account empties for a platform, in its order
PlatformTables(platform) ==
    IF platform = "linkedin" THEN <<"LinkedInProfile">>
    ELSE <<"TwitterProfile", "Tweet", "TwitterFollower", "TwitterHashtag">>

\* the content tables with a foreign key to the account, per platform
ContentTables(platform) ==
    IF platform = "linkedin" THEN {"LinkedInPost", "LinkedInConnection"}
    ELSE {"Tweet", "TwitterFollower", "TwitterHashtag"}

\* disconnect_account: SocialMediaAccount.objects.get(user, platform).  No row
\* raises DoesNotExist, several rows raise MultipleObjectsReturned; both are
\* caught and make disconnect_account return False
disconnect_get(user, platform, table) ==
    LET found == {a \in table : a.user = user /\ a.platform = platform}
    IN  IF Cardinality(found) = 1
        THEN [account |-> <<CHOOSE a \in found : TRUE>>, ret |-> TRUE]
        ELSE [account |-> <<>>, ret |-> FALSE]

\* _revoke_platform_token without its except clause: a network error leaves it
revoke_platform_token_raising(account, status) ==
    IF decrypt_token(account.access_token) = <<>>
    THEN [revoke |-> "skipped", raised |-> FALSE]
    ELSE IF status = 0 THEN [revoke |-> "error", raised |-> TRUE]
    ELSE IF status = HTTP_OK THEN [revoke |-> "revoked", raised |-> FALSE]
    ELSE [revoke |-> "refused", raised |-> FALSE]

\* TokenManager._revoke_platform_token: what became of the revocation call
\* (status 0 stands for requests.post raising) and whether anything is raised
\* to disconnect_account
revoke_platform_token(account, status) ==
    IF decrypt_token(account.access_token) = <<>>
    THEN [revoke |-> "skipped", raised |-> FALSE]
    ELSE IF status = 0 THEN [revoke |-> "error", raised |-> FALSE]
    ELSE IF status = HTTP_OK THEN [revoke |-> "revoked", raised |-> FALSE]
    ELSE [revoke |-> "refused", raised |-> FALSE]

\* rows of a table with a social_account column that reference account id
LogsOf(id, table) == SelectSeq(table, LAMBDA row : row.social_account = id)
LogsNotOf(id, table) == SelectSeq(table, LAMBDA row : row.social_account # id)
RowsOf(id, table) == {row \in table : row.social_account = id}
LinkedSessions(id, table) == {s \in table : s.social_account = <<id>>}

\* Disconnect clearing the user's sessions before it looks the account up
Disconnect_cleanup_first(r, user, platform, method) ==
    /\ req[r].pc = "idle"
    /\ sessions' = IF method = "POST"
                   THEN cleanup_user_platform_sessions(user, platform, sessions)
                   ELSE sessions
    /\ IF method # "POST" THEN Finish(r, "invalid_method")
       ELSE LET got == disconnect_get(user, platform, accounts)
            IN  IF ~got.ret THEN Finish(r, "not_found")
                ELSE Goto(r, [Idle EXCEPT !.kind = "disconnect",
                                  !.user = user, !.platform = platform,
                                  !.account = got.account], "revoke")
    /\ UNCHANGED <<now, accounts, platformRows, apilogs, analytics,
                   nextAccountId, nextSession>>

\* a disconnect view that does not look at the request method
Disconnect_any_method(r, user, platform, method) ==
    /\ req[r].pc = "idle"
    /\ LET got == disconnect_get(user, platform, accounts)
       IN  IF ~got.ret THEN Finish(r, "not_found")
           ELSE Goto(r, [Idle EXCEPT !.kind = "disconnect",
                             !.user = user, !.platform = platform,
                             !.account = got.account], "revoke")
    /\ UNCHANGED <<now, db, nextAccountId, nextSession>>

\* linkedin_disconnect / twitter_disconnect arrive: any method but POST is
\* refused, by POST disconnect_account looks the account up
Disconnect(r, user, platform, method) ==
    /\ req[r].pc = "idle"
    /\ IF method # "POST" THEN Finish(r, "invalid_method")
       ELSE LET got == disconnect_get(user, platform, accounts)
            IN  IF ~got.ret THEN Finish(r, "not_found")
                ELSE Goto(r, [Idle EXCEPT !.kind = "disconnect",
                                  !.user = user, !.platform = platform,
                                  !.account = got.account], "revoke")
    /\ UNCHANGED <<now, db, nextAccountId, nextSession>>

\* disconnect_account: the token is revoked at the platform, best effort
DisconnectRevoke(r, status) ==
    /\ req[r].pc = "revoke"
    /\ LET done == revoke_platform_token(req[r].account[1], status)
       IN  IF done.raised THEN Finish(r, "not_found")
           ELSE Goto(r, [req[r] EXCEPT !.revoke = done.revoke], "delete_logs")
    /\ UNCHANGED <<now, db, nextAccountId, nextSession>>

\* disconnect_account: APICallLog.objects.filter(social_account).delete()
DisconnectDeleteLogs(r) ==
    /\ req[r].pc = "delete_logs"
    /\ apilogs' = LogsNotOf(req[r].account[1].id, apilogs)
    /\ Goto(r, [req[r] EXCEPT !.deleted =
                   @ + Len(LogsOf(req[r].account[1].id, apilogs))],
            "delete_analytics")
    /\ UNCHANGED <<now, accounts, sessions, platformRows, analytics,
                   nextAccountId, nextSession>>

\* disconnect_account: UserAnalytics.objects.filter(social_account).delete()
DisconnectDeleteAnalytics(r) ==
    /\ req[r].pc = "delete_analytics"
    /\ analytics' = analytics \ RowsOf(req[r].account[1].id, analytics)
    /\ Goto(r, [req[r] EXCEPT !.deleted =
                   @ + Cardinality(RowsOf(req[r].account[1].id, analytics))],
            "delete_linked_sessions")
    /\ UNCHANGED <<now, accounts, sessions, platformRows, apilogs,
                   nextAccountId, nextSession>>

\* disconnect_account: SessionData.objects.filter(social_account).delete()
DisconnectDeleteLinkedSessions(r) ==
    /\ req[r].pc = "delete_linked_sessions"
    /\ sessions' = sessions \ LinkedSessions(req[r].account[1].id, sessions)
    /\ Goto(r, [req[r] EXCEPT !.deleted =
                   @ + Cardinality(LinkedSessions(req[r].account[1].id, sessions))],
            "delete_tagged_sessions")
    /\ UNCHANGED <<now, accounts, platformRows, apilogs, analytics,
                   nextAccountId, nextSession>>

\* disconnect_account: SessionManager.cleanup_user_platform_sessions
DisconnectDeleteTaggedSessions(r) ==
    /\ req[r].pc = "delete_tagged_sessions"
    /\ sessions' = cleanup_user_platform_sessions(req[r].user, req[r].platform,
                                                  sessions)
    /\ Goto(r, [req[r] EXCEPT
                   !.deleted = @ + Cardinality(sessions) - Cardinality(sessions'),
                   !.idx = 1],
            "delete_platform_rows")
    /\ UNCHANGED <<now, accounts, platformRows, apilogs, analytics,
                   nextAccountId, nextSession>>

\* disconnect_account: one platform table after the other is emptied of the
\* account's rows
DisconnectDeletePlatformRows(r) ==
    /\ req[r].pc = "delete_platform_rows"
    /\ LET tables == PlatformTables(req[r].platform)
           gone == {row \in RowsOf(req[r].account[1].id, platformRows) :
                       row.table = tables[req[r].idx]}
       IN  /\ platformRows' = platformRows \ gone
           /\ Goto(r, [req[r] EXCEPT
                          !.deleted = @ + Cardinality(gone),
                          !.idx = IF @ < Len(tables) THEN @ + 1 ELSE 0],
                   IF req[r].idx < Len(tables) THEN "delete_platform_rows"
                   ELSE "delete_account")
    /\ UNCHANGED <<now, accounts, sessions, apilogs, analytics,
                   nextAccountId, nextSession>>

\* disconnect_account: social_account.delete(), which cascades over every
\* foreign key to the account, and the answer of the view
DisconnectDeleteAccount(r) ==
    /\ req[r].pc = "delete_account"
    /\ LET id == req[r].account[1].id
       IN  /\ accounts' = {a \in accounts : a.id # id}
           /\ apilogs' = LogsNotOf(id, apilogs)
           /\ analytics' = analytics \ RowsOf(id, analytics)
           /\ sessions' = sessions \ LinkedSessions(id, sessions)
           /\ platformRows' = platformRows \ RowsOf(id, platformRows)
    /\ Finish(r, "removed")
    /\ UNCHANGED <<now, nextAccountId, nextSession>>

\* ----------------------------------------------------------- profile pages
\* linkedin_profile / twitter_profile: the page of the user's active account
ProfilePage(r, user, platform) ==
    /\ req[r].pc = "idle"
    /\ LET got == get_user_social_account(user, platform, accounts)
       IN  IF got.raised THEN Finish(r, "server_error")
           ELSE IF got.account = <<>> THEN Finish(r, "not_connected")
           ELSE Finish(r, "profile")
    /\ UNCHANGED <<now, db, nextAccountId, nextSession>>

\* ------------------------------------------------------------- API client
\* APIClient(social_account): a caller holds an account it loaded
ApiClient(r, account) ==
    /\ req[r].pc = "idle"
    /\ account \in accounts
    /\ Goto(r, [Idle EXCEPT !.kind = "api", !.user = account.user,
                            !.platform = account.platform,
                            !.account = <<account>>], "get_valid_token")
    /\ UNCHANGED <<now, db, nextAccountId, nextSession>>

\* get_valid_token taking the refresh of a token for done whenever the
\* account holds a refresh token
get_valid_token_refreshed(account, table, t) ==
    IF is_token_expired(account, t) /\ account.refresh_token = <<>>
    THEN LET saved == account_save([account EXCEPT !.status = "expired"], table)
         IN  [token |-> <<>>, raised |-> saved.raised, accounts |-> saved.accounts]
    ELSE [token |-> decrypt_token(account.access_token), raised |-> FALSE,
          accounts |-> table]

\* TokenManager.get_valid_token on the held account; refresh_access_token
\* returns None for every platform, so an expired token is marked and saved
get_valid_token(account, table, t) ==
    IF is_token_expired(account, t)
    THEN LET saved == account_save([account EXCEPT !.status = "expired"], table)
         IN  [token |-> <<>>, raised |-> saved.raised, accounts |-> saved.accounts]
    ELSE [token |-> decrypt_token(account.access_token), raised |-> FALSE,
          accounts |-> table]

\* make_request going on to the HTTP call without a token
ApiGetValidToken_unchecked(r) ==
    /\ req[r].pc = "get_valid_token"
    /\ LET got == get_valid_token(req[r].account[1], accounts, now)
       IN  /\ accounts' = got.accounts
           /\ IF got.raised THEN Finish(r, "server_error")
              ELSE Goto(r, [req[r] EXCEPT !.access_token = got.token], "request")
    /\ UNCHANGED <<now, sessions, platformRows, apilogs, analytics,
                   nextAccountId, nextSession>>

\* make_request: the token is resolved, no token ends the call
ApiGetValidToken(r) ==
    /\ req[r].pc = "get_valid_token"
    /\ LET got == get_valid_token(req[r].account[1], accounts, now)
       IN  /\ accounts' = got.accounts
           /\ IF got.raised THEN Finish(r, "server_error")
              ELSE IF got.token = <<>> THEN Finish(r, "no_payload")
              ELSE Goto(r, [req[r] EXCEPT !.access_token = got.token], "request")
    /\ UNCHANGED <<now, sessions, platformRows, apilogs, analytics,
                   nextAccountId, nextSession>>

\* AnalyticsCollector.update_profile_metrics on an account its caller
\* loaded: the counters are not part of the model, save() writes the
\* instance as it was loaded
UpdateProfileMetrics(r) ==
    /\ req[r].kind = "api"
    /\ req[r].pc = "get_valid_token"
    /\ LET saved == account_save(req[r].account[1], accounts)
       IN  /\ accounts' = saved.accounts
           /\ Finish(r, IF saved.raised THEN "server_error" ELSE "synced")
    /\ UNCHANGED <<now, sessions, platformRows, apilogs, analytics,
                   nextAccountId, nextSession>>

\* the platform's rate-limit header of a response (X-Restli-Protocol-Version
\* for linkedin, x-rate-limit-remaining for twitter): not sent, a number, or
\* any other text
Headers == {"absent", "numeric", "text"}

\* the part of str(e) that depends on a token, for an exception of the HTTP
\* call: a connection error of requests names the URL it asked for, query
\* string included, and make_request puts the token of a facebook account
\* into the query string (a bearer header is not part of the text)
exception_text(account) ==
    IF account.platform = "facebook" THEN decrypt_token(account.access_token)
    ELSE <<>>

\* APIClient._log_api_call: int() of the header raises ValueError for a text
\* that is no number, otherwise one APICallLog row is inserted; of the
\* error_message only the part that depends on a token is kept
log_api_call(account, status, header, error_message) ==
    IF header = "text" THEN [raised |-> TRUE, rows |-> <<>>]
    ELSE [raised |-> FALSE,
          rows |-> <<[social_account |-> account.id, status_code |-> status,
                      error_message |-> error_message]>>]

\* make_request from the HTTP call on: the rows it logs and whether it
\* returns the payload.  Status 0 stands for requests raising; an exception
\* of the first _log_api_call is caught by the same except clause, which logs
\* status 0 with no headers; a non-200 answer is logged a second time, with
\* the body of the answer for error_message
logged_rows(account, status, header) ==
    LET failed == log_api_call(account, 0, "absent", exception_text(account))
        unparsed == log_api_call(account, 0, "absent", <<>>)
        first == log_api_call(account, status, header, <<>>)
    IN  IF status = 0 THEN [payload |-> FALSE, rows |-> failed.rows]
        ELSE IF first.raised THEN [payload |-> FALSE, rows |-> unparsed.rows]
        ELSE IF status = HTTP_OK THEN [payload |-> TRUE, rows |-> first.rows]
        ELSE [payload |-> FALSE,
              rows |-> first.rows
                          \o log_api_call(account, status, header, <<>>).rows]

\* make_request logging its call whether or not the account is still stored
ApiRequest_unconstrained(r, status, header, limit) ==
    /\ req[r].pc = "request"
    /\ LET done == logged_rows(req[r].account[1], status, header)
       IN  /\ Len(apilogs) + Len(done.rows) <= limit
           /\ apilogs' = apilogs \o done.rows
           /\ Finish(r, IF done.payload THEN "payload" ELSE "no_payload")
    /\ UNCHANGED <<now, accounts, sessions, platformRows, analytics,
                   nextAccountId, nextSession>>

\* make_request: the HTTP call and its log rows; the rows have a foreign key
\* to the account, an INSERT for a deleted account raises out of make_request
ApiRequest(r, status, header, limit) ==
    /\ req[r].pc = "request"
    /\ LET done == logged_rows(req[r].account[1], status, header)
       IN  IF ~(\E a \in accounts : a.id = req[r].account[1].id)
           THEN /\ Finish(r, "server_error")
                /\ UNCHANGED apilogs
           ELSE /\ Len(apilogs) + Len(done.rows) <= limit
                /\ apilogs' = apilogs \o done.rows
                /\ Finish(r, IF done.payload THEN "payload" ELSE "no_payload")
    /\ UNCHANGED <<now, accounts, sessions, platformRows, analytics,
                   nextAccountId, nextSession>>

\* AnalyticsCollector.collect_daily_analytics: get_or_create of today's row
CollectDailyAnalytics(account) ==
    /\ account \in accounts
    /\ [social_account |-> account.id, date |-> now \div 86400] \notin analytics
    /\ analytics' = analytics \cup
           {[social_account |-> account.id, date |-> now \div 86400]}
    /\ response' = ""
    /\ Inner
    /\ UNCHANGED <<now, accounts, sessions, platformRows, apilogs, req,
                   nextAccountId, nextSession>>

\* SessionManager.cleanup_expired_sessions is called and returns
CleanupExpiredSessions ==
    /\ sessions' = cleanup_expired_sessions(sessions, now)
    /\ response' = "swept"
    /\ Inner
    /\ UNCHANGED <<now, accounts, platformRows, apilogs, analytics, req,
                   nextAccountId, nextSession>>

\* ------------------------------------------------------------------ admin
\* the admin site adds a content row (a post, a tweet, ...) for an account
AdminAddContent(account, table) ==
    /\ account \in accounts
    /\ table \in ContentTables(account.platform)
    /\ [social_account |-> account.id, table |-> table] \notin platformRows
    /\ platformRows' = platformRows \cup
           {[social_account |-> account.id, table |-> table]}
    /\ response' = ""
    /\ Inner
    /\ UNCHANGED <<now, accounts, sessions, apilogs, analytics, req,
                   nextAccountId, nextSession>>

\* the admin site adds an account: the token fields are read-only there and
\* stay empty, the unique key is validated
AdminAddAccount(user, platform, platform_user_id) ==
    /\ nextAccountId <= MaxAccounts
    /\ LET made == account_create(
                      [id |-> nextAccountId, user |-> user, platform |-> platform,
                       platform_user_id |-> platform_user_id,
                       display_name |-> "", email |-> "",
                       access_token |-> <<>>, refresh_token |-> <<>>,
                       token_expires_at |-> <<>>, status |-> "active"], accounts)
       IN  /\ ~made.raised
           /\ accounts' = made.accounts
    /\ nextAccountId' = nextAccountId + 1
    /\ response' = ""
    /\ Inner
    /\ UNCHANGED <<now, sessions, platformRows, apilogs, analytics, req,
                   nextSession>>

\* ------------------------------------------------------------ request mix
\* U: the users, P: the platforms, I: the platform identities that act, G:
\* the grants of the token endpoint; limit: the number of states issued, after
\* which no login arrives.  A callback carries any state issued or one never
\* issued (limit + 1)
LoginSteps(r, U, P, limit) ==
    \/ nextSession <= limit /\ \E u \in U, p \in P : Login(r, u, p)
    \/ LoginCreateSession(r, limit)

\* N: the names and emails the profile endpoint answers with
NamedCallbackSteps(r, U, P, I, G, N, limit) ==
    \/ \E u \in U, p \in P, q \in Queries(limit + 1) :
          Callback(r, u, p, q.error, q.code, q.state)
    \/ \E x \in NamedExchanges(I, G, N) :
          CallbackExchange(r, x.token, x.profile)
    \/ CallbackStoreGet(r)
    \/ CallbackStoreSave(r)
    \/ CallbackStoreCreate(r)
    \/ CallbackProfile(r)
    \/ CallbackDeleteSession(r)

CallbackSteps(r, U, P, I, G, limit) ==
    \/ \E u \in U, p \in P, q \in Queries(limit + 1) :
          Callback(r, u, p, q.error, q.code, q.state)
    \/ \E x \in Exchanges(I, G) : CallbackExchange(r, x.token, x.profile)
    \/ CallbackStoreGet(r)
    \/ CallbackStoreSave(r)
    \/ CallbackStoreCreate(r)
    \/ CallbackProfile(r)
    \/ CallbackDeleteSession(r)

DisconnectSteps(r, U, P) ==
    \/ \E u \in U, p \in P, m \in {"GET", "POST"} : Disconnect(r, u, p, m)
    \/ \E st \in {0, 400, HTTP_OK} : DisconnectRevoke(r, st)
    \/ DisconnectDeleteLogs(r)
    \/ DisconnectDeleteAnalytics(r)
    \/ DisconnectDeleteLinkedSessions(r)
    \/ DisconnectDeleteTaggedSessions(r)
    \/ DisconnectDeletePlatformRows(r)
    \/ DisconnectDeleteAccount(r)

\* S: the statuses the platform answers with, H: its rate-limit headers,
\* limit: the APICallLog rows stored
ApiSteps(r, S, H, limit) ==
    \/ \E a \in accounts : ApiClient(r, a)
    \/ ApiGetValidToken(r)
    \/ \E st \in S, h \in H : ApiRequest(r, st, h, limit)

\* logins and callbacks of one user for one platform identity, interleaved
\* step by step
RaceUsers == {"u1"}
RacePlatforms == {"twitter"}
RaceIds == {"a"}
Next ==
    \E r \in Reqs :
        \/ LoginSteps(r, RaceUsers, RacePlatforms, MaxRaceSessions)
        \/ CallbackSteps(r, RaceUsers, RacePlatforms, RaceIds, Grants,
                        MaxRaceSessions)

Spec == Init /\ [][Next]_vars

\* every user, platform and identity: logins and callbacks, one request at a
\* time
SerialNext ==
    \/ LoginSteps(1, Users, Platforms, MaxSessions)
    \/ CallbackSteps(1, Users, Platforms, PlatformUserIds, Grants, MaxSessions)

SerialSpec == Init /\ [][SerialNext]_vars

\* logins and callbacks of one user as time passes, one request at a time
TimedUsers == {"u1"}
TimedIds == {"a"}
TimedNext ==
    \/ Tick
    \/ LoginSteps(1, TimedUsers, Platforms, MaxTimedSessions)
    \/ CallbackSteps(1, TimedUsers, Platforms, TimedIds, Grants,
                     MaxTimedSessions)

TimedSpec == Init /\ [][TimedNext]_vars

\* no request is being served
Quiet == \A q \in Reqs : req[q].pc = "idle"

\* the same with calls of the sweep of expired sessions; nothing in the views
\* or in SessionManager calls it, so it runs when someone chooses to call it
SweepNext ==
    \/ TimedNext
    \/ Quiet /\ CleanupExpiredSessions

SweepSpec == Init /\ [][SweepNext]_vars

\* a request that is being served is served to its end
Serve ==
    /\ ~Quiet
    /\ \/ LoginSteps(1, TimedUsers, Platforms, MaxTimedSessions)
       \/ CallbackSteps(1, TimedUsers, Platforms, TimedIds, Grants,
                        MaxTimedSessions)

\* time passes and requests under way are served whatever else happens; no
\* new request and no sweep is bound to come
SweepLiveSpec == SweepSpec /\ WF_vars(Tick) /\ WF_vars(Serve)

\* one user connecting and reconnecting one identity whose profile has a name
\* and an email, or lacks them, one request at a time
ProfileUsers == {"u1"}
ProfileIds == {"a"}
ProfileNames == {"", "n"}
ProfileGrants == {g \in Grants : g.refresh_token # <<>>}
ProfileNext ==
    \/ LoginSteps(1, ProfileUsers, Platforms, MaxProfileSessions)
    \/ NamedCallbackSteps(1, ProfileUsers, Platforms, ProfileIds,
                          ProfileGrants, ProfileNames, MaxProfileSessions)

ProfileSpec == Init /\ [][ProfileNext]_vars

\* one user connecting and reconnecting identities as time passes, looking at
\* the profile pages and calling the API, one request at a time
ReconnectUsers == {"u1"}
ReconnectAdminIds == {"b"}
ReconnectNext ==
    \/ Tick
    \/ LoginSteps(1, ReconnectUsers, Platforms, MaxReconnectSessions)
    \/ CallbackSteps(1, ReconnectUsers, Platforms, PlatformUserIds, Grants,
                     MaxReconnectSessions)
    \/ \E u \in ReconnectUsers, p \in Platforms : ProfilePage(1, u, p)
    \/ Len(apilogs) < MaxReconnectLogs /\ \E a \in accounts : ApiClient(1, a)
    \/ ApiGetValidToken(1)
    \/ ApiRequest(1, HTTP_OK, "absent", MaxReconnectLogs)
    \/ Quiet /\ \E u \in ReconnectUsers, p \in Platforms, i \in ReconnectAdminIds :
                   AdminAddAccount(u, p, i)

ReconnectSpec == Init /\ [][ReconnectNext]_vars

\* one user with accounts, their dependent rows and disconnects, one request
\* at a time
OwnerUsers == {"u1"}
OwnerIds == {"a"}     \* the identity the user connects through the callback
AdminIds == {"a", "b"} \* the identities the admin site adds accounts for
OwnerGrants == {g \in Grants : g.refresh_token # <<>>}
OwnerRows ==
    Len(apilogs) + Cardinality(analytics)
        + Cardinality({row \in platformRows :
                          row.table \in {"Tweet", "LinkedInPost"}})
Room == Quiet /\ OwnerRows < MaxOwnerRows
DisconnectNext ==
    \/ LoginSteps(1, OwnerUsers, Platforms, MaxOwnerSessions)
    \/ CallbackSteps(1, OwnerUsers, Platforms, OwnerIds, OwnerGrants,
                     MaxOwnerSessions)
    \/ DisconnectSteps(1, OwnerUsers, Platforms)
    \/ Room /\ \E a \in accounts : ApiClient(1, a)
    \/ ApiGetValidToken(1)
    \/ ApiRequest(1, HTTP_OK, "absent", MaxOwnerRows)
    \/ Room /\ \E a \in accounts : CollectDailyAnalytics(a)
    \/ Room /\ \E a \in accounts, t \in {"Tweet", "LinkedInPost"} :
                  AdminAddContent(a, t)
    \/ Quiet /\ \E u \in OwnerUsers, p \in Platforms, i \in AdminIds :
                   AdminAddAccount(u, p, i)

DisconnectSpec == Init /\ [][DisconnectNext]_vars

\* one user's accounts (connected through the callback, or added in the admin
\* site with no token) and API calls on them as time passes, one request at
\* a time
ApiUsers == {"u1"}
ApiIds == {"a"}
ApiAdminIds == {"a"}
ApiNext ==
    \/ Tick
    \/ LoginSteps(1, ApiUsers, Platforms, MaxApiSessions)
    \/ CallbackSteps(1, ApiUsers, Platforms, ApiIds, Grants, MaxApiSessions)
    \/ ApiSteps(1, {0, 400, HTTP_OK}, Headers, MaxApiLogs)
    \/ Quiet /\ \E u \in ApiUsers, p \in Platforms, i \in ApiAdminIds :
                   AdminAddAccount(u, p, i)

ApiSpec == Init /\ [][ApiNext]_vars

\* SessionManager.create_oauth_session called with a state of its caller's, or
\* with none: "if not state" then draws a fresh random one
CreateOAuthSession(user, platform, state, limit) ==
    /\ nextSession <= limit
    /\ sessions' = sessions \cup
           {create_oauth_session(nextSession, user, platform,
                                 dict_get(state, nextSession), <<>>, now)}
    /\ nextSession' = nextSession + 1
    /\ response' = ""
    /\ Inner
    /\ UNCHANGED <<now, accounts, platformRows, apilogs, analytics, req,
                   nextAccountId>>

\* the states a caller passes to create_oauth_session: none, or a string of
\* its own, which is none of the random states
CallerStates == {<<>>, <<MaxStateSessions + 1>>}

\* logins and callbacks of one user, and create_oauth_session called by
\* other callers than the login views
StateNext ==
    \/ LoginSteps(1, TimedUsers, Platforms, MaxStateSessions)
    \/ CallbackSteps(1, TimedUsers, Platforms, TimedIds, Grants,
                     MaxStateSessions)
    \/ Quiet /\ \E u \in TimedUsers, p \in Platforms, state \in CallerStates :
                   CreateOAuthSession(u, p, state, MaxStateSessions)

StateSpec == Init /\ [][StateNext]_vars

\* a disconnect in slot 2 running against the logins, callbacks, API calls
\* and analytics collection of slot 1 for the same user's twitter account
CascadePlatforms == {"twitter"}
CascadeNext ==
    \/ LoginSteps(1, OwnerUsers, CascadePlatforms, MaxCascadeSessions)
    \/ CallbackSteps(1, OwnerUsers, CascadePlatforms, OwnerIds, OwnerGrants,
                     MaxCascadeSessions)
    \/ Len(apilogs) < MaxCascadeRows /\ \E a \in accounts : ApiClient(1, a)
    \/ ApiGetValidToken(1)
    \/ ApiRequest(1, HTTP_OK, "absent", MaxCascadeRows)
    \/ Cardinality(analytics) < MaxCascadeRows /\ req[1].pc = "idle"
           /\ \E a \in accounts : CollectDailyAnalytics(a)
    \/ DisconnectSteps(2, OwnerUsers, CascadePlatforms)
    \/ Quiet /\ \E u \in OwnerUsers, p \in CascadePlatforms, i \in OwnerIds :
                   AdminAddAccount(u, p, i)

CascadeSpec == Init /\ [][CascadeNext]_vars

\* TokenManager.store_tokens called for a platform that has no callback view
\* of its own: the account is created or, when its key is found, updated
StoreTokens(user, platform, platform_user_id, grant) ==
    /\ LET found == account_by_key(user, platform, platform_user_id, accounts)
           user_data == [name |-> <<>>, email |-> <<>>]
       IN  IF found = {} THEN
               /\ nextAccountId <= MaxAccounts
               /\ accounts' = account_create(
                      account_new(nextAccountId, user, platform,
                          platform_user_id, user_data, grant.access_token,
                          grant.refresh_token, grant.expires_in, now),
                      accounts).accounts
               /\ nextAccountId' = nextAccountId + 1
           ELSE
               /\ accounts' = account_save(
                      account_updated(CHOOSE a \in found : TRUE, user_data,
                          grant.access_token, grant.refresh_token,
                          grant.expires_in, now),
                      accounts).accounts
               /\ UNCHANGED nextAccountId
    /\ response' = ""
    /\ Inner
    /\ UNCHANGED <<now, sessions, platformRows, apilogs, analytics, req,
                   nextSession>>

\* API calls for the facebook accounts of one user, whose token make_request
\* sends in the query string
QueryPlatforms == {"facebook"}
QueryNext ==
    \/ Quiet /\ \E p \in QueryPlatforms, i \in PlatformUserIds, g \in Grants :
                   StoreTokens("u1", p, i, g)
    \/ ApiSteps(1, {0, 400, HTTP_OK}, Headers, MaxApiLogs)

QuerySpec == Init /\ [][QueryNext]_vars

\* token exchanges whose response names no lifetime, a lifetime of zero
\* seconds or a lifetime of twenty minutes, stored as the clock advances
ExchangeGrants ==
    {[access_token |-> <<116, 49>>, refresh_token |-> <<>>, expires_in |-> e] :
        e \in {<<>>, <<0>>, <<1200>>}}
ExpiryNext ==
    \/ Tick
    \/ \E p \in Platforms, i \in PlatformUserIds, g \in ExchangeGrants :
           StoreTokens("u1", p, i, g)

ExpirySpec == Init /\ [][ExpiryNext]_vars

\* an API client in slot 2 that holds an account it loaded, while the user's
\* logins and callbacks run in slot 1 and time passes
StaleNext ==
    \/ Tick
    \/ LoginSteps(1, TimedUsers, CascadePlatforms, MaxStaleSessions)
    \/ CallbackSteps(1, TimedUsers, CascadePlatforms, TimedIds, OwnerGrants,
                     MaxStaleSessions)
    \/ Len(apilogs) < MaxStaleLogs /\ \E a \in accounts : ApiClient(2, a)
    \/ ApiGetValidToken(2)
    \/ ApiRequest(2, HTTP_OK, "absent", MaxStaleLogs)
    \/ UpdateProfileMetrics(2)

StaleSpec == Init /\ [][StaleNext]_vars

\* login-initiate requests of one user, any number of them under way together
LoginNext ==
    \E r \in Reqs : LoginSteps(r, TimedUsers, Platforms, MaxLoginSessions)

LoginSpec == Init /\ [][LoginNext]_vars

\* two users, both platforms: logins, callbacks, API calls and disconnects,
\* one request at a time
FrameNext ==
    \/ LoginSteps(1, Users, Platforms, MaxFrameSessions)
    \/ CallbackSteps(1, Users, Platforms, OwnerIds, OwnerGrants,
                     MaxFrameSessions)
    \/ Len(apilogs) < MaxFrameLogs /\ \E a \in accounts : ApiClient(1, a)
    \/ ApiGetValidToken(1)
    \/ ApiRequest(1, HTTP_OK, "absent", MaxFrameLogs)
    \/ DisconnectSteps(1, Users, Platforms)

FrameSpec == Init /\ [][FrameNext]_vars

\* ================================================================ claims
SameIdentity(a, b) ==
    /\ a.user = b.user
    /\ a.platform = b.platform
    /\ a.platform_user_id = b.platform_user_id

\* what a callback view answers when the session check fails for want of a
\* session
InvalidSessionAnswers == {"invalid_or_expired_session", "invalid_session"}

\* C1: in every reachable state at most one SocialMediaAccount row exists for
\* a (user, platform, platform_user_id), however the get and create steps of
\* concurrent callbacks interleave
C1_OneAccountPerIdentity ==
    \A a \in accounts, b \in accounts : SameIdentity(a, b) => a = b

\* a callback that saw DoesNotExist is about to create the row another
\* callback has created meanwhile
C1_Witness ==
    \E r \in Reqs :
        /\ req[r].pc = "create_account"
        /\ account_by_key(req[r].user, req[r].platform, req[r].profile_id[1],
                          accounts) # {}

\* C2: for any state value at most one callback is past the session check
\* (at the token exchange or the account storage) at any time
C2_SingleUse ==
    \A r \in Reqs, q \in Reqs :
        (/\ r # q
         /\ req[r].kind = "callback"
         /\ req[q].kind = "callback")
            => req[r].session[1].oauth_state # req[q].session[1].oauth_state

\* C3: get_oauth_session on the state of a stored session returns nothing and
\* removes the row when the time is later than expires_at, and returns the
\* session and leaves the table alone otherwise
C3_LookupHonoursExpiry ==
    \A s \in sessions :
        LET got == get_oauth_session(s.oauth_state, sessions, now)
        IN  /\ ~got.raised
            /\ IF now > s.expires_at
               THEN got.session = <<>> /\ s \notin got.sessions
               ELSE got.session = <<s>> /\ got.sessions = sessions

\* one stored session has expired and its lookup returns nothing, another is
\* at the very second of its expiry and its lookup returns it
C3_Witness ==
    \E s \in sessions, e \in sessions :
        /\ now = s.expires_at
        /\ get_oauth_session(s.oauth_state, sessions, now).session = <<s>>
        /\ now > e.expires_at
        /\ get_oauth_session(e.oauth_state, sessions, now).session = <<>>

\* C4: on both platforms a callback carrying the state of an unexpired
\* session of another user is answered with the ownership mismatch, the
\* session is deleted, and no account or profile row changes
C4_MismatchDeletesSession ==
    [][\A u \in Users, p \in Platforms, s \in sessions :
          (/\ s.user # u
           /\ now <= s.expires_at
           /\ Callback(1, u, p, FALSE, TRUE, s.oauth_state))
              => /\ response' = "session_not_owned"
                 /\ s \notin sessions'
                 /\ UNCHANGED <<accounts, platformRows>>]_vars

\* C5: a callback with a code and a state that matches no stored session is
\* answered with the invalid-session message, raises nothing, and leaves the
\* account, profile and session rows as they were
C5_UnknownStateRejected ==
    [][\A u \in TimedUsers, p \in Platforms, n \in 1..(MaxTimedSessions + 1) :
          (/\ ~(\E s \in sessions : s.oauth_state = n)
           /\ Callback(1, u, p, FALSE, TRUE, n))
              => /\ response' \in InvalidSessionAnswers
                 /\ req'[1].pc = "idle"
                 /\ UNCHANGED <<accounts, platformRows, sessions>>]_vars

\* a callback was refused before any state had been issued
C5_Witness ==
    /\ response \in InvalidSessionAnswers
    /\ nextSession = 1

\* C6: when a callback that created the account of a new identity finishes,
\* exactly one account row has that identity, it is active, its stored access
\* token is not the issued token but decrypts to it, exactly one profile row
\* references it, and the session used is gone
C6_NewIdentityConnected ==
    [][(req[1].created /\ CallbackDeleteSession(1)) =>
          LET mine == account_by_key(req[1].user, req[1].platform,
                                     req[1].profile_id[1], accounts')
          IN  /\ response' = "connected"
              /\ Cardinality(mine) = 1
              /\ \A a \in mine :
                    /\ a.status = "active"
                    /\ a.access_token # req[1].access_token
                    /\ decrypt_token(a.access_token) = req[1].access_token
                    /\ Cardinality({row \in platformRows' :
                          /\ row.social_account = a.id
                          /\ row.table = ProfileTable(req[1].platform)}) = 1
              /\ ~(\E s \in sessions' :
                      s.oauth_state = req[1].session[1].oauth_state)]_vars

\* the callback of the only state issued so far has connected its identity
C6_Witness ==
    /\ response = "connected"
    /\ nextSession = 2
    /\ Cardinality(accounts) = 1
    /\ Cardinality(platformRows) = 1
    /\ sessions = {}

\* rows of any table that belong to an account of (user, platform), and the
\* sessions tagged (user, platform)
Leftovers(user, platform) ==
    LET ids == {a.id : a \in {b \in accounts :
                                 b.user = user /\ b.platform = platform}}
    IN  /\ ids = {}
        /\ ~(\E i \in 1..Len(apilogs) : apilogs[i].social_account \in ids)
        /\ ~(\E s \in sessions : s.user = user /\ s.platform = platform)

\* C7: whenever an account exists for (user, platform), disconnect_account
\* does not answer not-found, and when it has answered no account of (user,
\* platform), none of its dependent rows and no tagged session is left
C7_DisconnectRemovesAll ==
    [][\A u \in OwnerUsers, p \in Platforms :
          /\ ((\E a \in accounts : a.user = u /\ a.platform = p)
                 /\ Disconnect(1, u, p, "POST"))
                => response' # "not_found"
          /\ (req[1].user = u /\ req[1].platform = p
                 /\ DisconnectDeleteAccount(1))
                => (response' = "removed" /\ Leftovers(u, p)')]_vars

\* some row of the tables given references account id
Dependents(id, logs, metrics, rows, linked) ==
    \/ \E i \in 1..Len(logs) : logs[i].social_account = id
    \/ RowsOf(id, metrics) # {}
    \/ RowsOf(id, rows) # {}
    \/ LinkedSessions(id, linked) # {}

\* C8: whatever the revocation call does (200, another status, a network
\* error, or no call because the stored token does not decrypt), the
\* disconnect goes on to the deletions with storage untouched, and it ends
\* answering "removed" with the account, its dependent rows and the tagged
\* sessions gone
C8_RevocationNeverBlocks ==
    [][/\ \A st \in {0, 400, HTTP_OK} :
             DisconnectRevoke(1, st)
                => (req'[1].pc = "delete_logs" /\ UNCHANGED db)
       /\ DisconnectDeleteAccount(1)
             => /\ response' = "removed"
                /\ ~(\E a \in accounts' : a.id = req[1].account[1].id)
                /\ ~Dependents(req[1].account[1].id, apilogs', analytics',
                               platformRows', sessions')
                /\ ~(\E s \in sessions' : /\ s.user = req[1].user
                                          /\ s.platform = req[1].platform)]_vars

\* a disconnect whose revocation call met a network error has reached the
\* deletion of the account
C8_Witness ==
    /\ req[1].pc = "delete_account"
    /\ req[1].revoke = "error"

\* C9: disconnect_account for a (user, platform) without an account answers
\* not-found at once, without reaching the revocation call, and changes no
\* row of any table
C9_DisconnectWithoutAccount ==
    [][\A u \in OwnerUsers, p \in Platforms :
          (/\ ~(\E a \in accounts : a.user = u /\ a.platform = p)
           /\ Disconnect(1, u, p, "POST"))
              => /\ response' = "not_found"
                 /\ req'[1].pc = "idle"
                 /\ UNCHANGED db]_vars

\* a disconnect was answered not-found while a session tagged for the user
\* is stored and there is no account of that platform
C9_Witness ==
    /\ response = "not_found"
    /\ \E s \in sessions :
          ~(\E a \in accounts : a.user = s.user /\ a.platform = s.platform)

\* C10: storage never shows rows of an account removed by a disconnect while
\* the account row is still there
C10_AllOrNothing ==
    \A r \in Reqs :
        (req[r].kind = "disconnect" /\ req[r].deleted > 0)
            => ~(\E a \in accounts : a.id = req[r].account[1].id)

\* the stored row of the account a request holds
Stored(r, table) == {a \in table : a.id = req[r].account[1].id}

\* C11: get_valid_token on an account whose token_expires_at is in the past
\* returns no token (make_request ends without payload) and leaves the stored
\* account with status "expired" and its access and refresh tokens as they
\* were, with or without a refresh token
C11_ExpiredTokenMarked ==
    [][(/\ req[1].pc = "get_valid_token"
        /\ is_token_expired(req[1].account[1], now)
        /\ ApiGetValidToken(1))
          => /\ response' = "no_payload"
             /\ req'[1].pc = "idle"
             /\ Stored(1, accounts') # {}
             /\ \A a \in Stored(1, accounts') :
                   /\ a.status = "expired"
                   /\ \A b \in Stored(1, accounts) :
                         /\ a.access_token = b.access_token
                         /\ a.refresh_token = b.refresh_token
                         /\ a.token_expires_at = b.token_expires_at]_vars

\* a call has ended without payload and without a log row, and an account
\* that holds a refresh token is marked expired
C11_Witness ==
    /\ response = "no_payload"
    /\ apilogs = <<>>
    /\ \E a \in accounts :
          /\ a.status = "expired"
          /\ a.refresh_token # <<>>
          /\ is_token_expired(a, now)

\* C12: get_valid_token on an account whose token_expires_at is unset or not
\* in the past returns the decryption of the stored access token (make_request
\* goes on with it, or ends when it is empty) and changes no field of any
\* account; an account without expiry is never expired, whatever the time
C12_ValidTokenReturned ==
    [][(/\ req[1].pc = "get_valid_token"
        /\ \/ req[1].account[1].token_expires_at = <<>>
           \/ now <= req[1].account[1].token_expires_at[1]
        /\ ApiGetValidToken(1))
          => /\ accounts' = accounts
             /\ \A b \in Stored(1, accounts) :
                   IF decrypt_token(b.access_token) = <<>>
                   THEN response' = "no_payload"
                   ELSE /\ req'[1].pc = "request"
                        /\ req'[1].access_token = decrypt_token(b.access_token)
                        /\ encrypt_token(req'[1].access_token) = b.access_token]_vars

\* long after it was stored, the token of an account without expiry has been
\* resolved for a call
C12_Witness ==
    /\ req[1].pc = "request"
    /\ req[1].account[1].token_expires_at = <<>>
    /\ req[1].access_token # <<>>
    /\ now = MaxTime

\* C13: when get_valid_token yields no usable token (expired, or a stored token
\* that decrypts to the empty string) make_request ends at once without
\* payload: it never reaches the HTTP call and writes no APICallLog row
C13_NoTokenNoCall ==
    [][(/\ req[1].pc = "get_valid_token"
        /\ \/ is_token_expired(req[1].account[1], now)
           \/ decrypt_token(req[1].account[1].access_token) = <<>>
        /\ ApiGetValidToken(1))
          => /\ response' = "no_payload"
             /\ req'[1].pc = "idle"
             /\ apilogs' = apilogs]_vars

\* a call on an account whose stored token is empty has ended without payload
\* and without a log row
C13_Witness ==
    /\ response = "no_payload"
    /\ apilogs = <<>>
    /\ \A a \in accounts : a.access_token = <<>>
    /\ accounts # {}

\* C14: every make_request that reaches the HTTP call appends exactly one
\* APICallLog row, whatever the platform answers
C14_OneLogPerCall ==
    [][\A st \in {0, 400, HTTP_OK}, h \in Headers :
          ApiRequest(1, st, h, MaxApiLogs)
              => Len(apilogs') = Len(apilogs) + 1]_vars

\* C15: a make_request that received an HTTP response writes no APICallLog
\* row with status_code 0
C15_ZeroOnlyWithoutResponse ==
    [][\A st \in {400, HTTP_OK}, h \in Headers :
          ApiRequest(1, st, h, MaxApiLogs)
              => \A i \in (Len(apilogs) + 1)..Len(apilogs') :
                    apilogs'[i].status_code # 0]_vars

\* C16: make_request returns the payload when the platform answers 200,
\* whatever the headers, and no payload for any other status or an exception
C16_PayloadIffOK ==
    [][\A st \in {0, 400, HTTP_OK}, h \in Headers :
          ApiRequest(1, st, h, MaxApiLogs)
              => (response' = "payload") = (st = HTTP_OK)]_vars

\* the sessions tagged (user, platform)
Tagged(user, platform) ==
    {s \in sessions : s.user = user /\ s.platform = platform}

\* state n was issued and is not the state of the most recent login-initiate
\* of (user, platform): no session holds it, or one tagged (user, platform)
\* does and a later one with that tag exists
Superseded(user, platform, n) ==
    /\ n < nextSession
    /\ \A s \in sessions :
          s.oauth_state = n =>
              /\ s \in Tagged(user, platform)
              /\ \E t \in Tagged(user, platform) : t.oauth_state > n

\* C17: once a login-initiate of a user for a platform has completed, a
\* callback of that user carrying a state issued by an earlier login-initiate
\* for that platform is rejected as invalid or expired; only the state of the
\* most recent login-initiate is accepted
C17_OnlyLatestStateAccepted ==
    [][\A u \in TimedUsers, p \in Platforms, n \in 1..MaxTimedSessions :
          (/\ req[1].pc = "idle"
           /\ Superseded(u, p, n)
           /\ Callback(1, u, p, FALSE, TRUE, n))
              => /\ response' \in InvalidSessionAnswers
                 /\ req'[1].pc = "idle"
                 /\ Tagged(u, p)' = Tagged(u, p)]_vars

\* two login-initiates for one platform have completed at the same instant,
\* nothing else removed a session, and a callback carrying the first state
\* has been rejected while the session of the second is stored
C17_Witness ==
    /\ response \in InvalidSessionAnswers
    /\ query = <<1>>
    /\ now = 0
    /\ accounts = {}
    /\ nextSession = 3
    /\ \E s \in sessions : s.oauth_state = 2

\* C18: when a login-initiate completes, exactly one session is added; it is
\* owned by the requesting user, tagged with the platform, holds the state
\* placed in the authorization URL, and expires 30 minutes after its creation;
\* for linkedin it has an empty code verifier and the URL has no PKCE
\* parameter, for twitter it has a non-empty code verifier and the URL has a
\* code_challenge with code_challenge_method S256
C18_LoginStoresSession ==
    [][LoginCreateSession(1, MaxTimedSessions) =>
          LET added == sessions' \ sessions
          IN  /\ response' = "redirect_to_authorization"
              /\ sessions \subseteq sessions'
              /\ Cardinality(added) = 1
              /\ Len(location') = 1
              /\ \A s \in added :
                    /\ s.user = req[1].user
                    /\ s.platform = req[1].platform
                    /\ s.oauth_state = location'[1].state
                    /\ s.expires_at = now + 30 * 60
                    /\ IF req[1].platform = "linkedin"
                       THEN /\ s.code_verifier = <<>>
                            /\ location'[1].code_challenge = <<>>
                            /\ location'[1].code_challenge_method = <<>>
                       ELSE /\ s.code_verifier # <<>>
                            /\ location'[1].code_challenge # <<>>
                            /\ location'[1].code_challenge_method = <<"S256">>]_vars

\* some time after start-up a twitter login has redirected to an authorization
\* URL with a PKCE challenge, and the session of its state is stored
C18_Witness ==
    /\ response = "redirect_to_authorization"
    /\ now > 0
    /\ Len(location) = 1
    /\ location[1].code_challenge_method = <<"S256">>
    /\ \E s \in sessions :
          /\ s.oauth_state = location[1].state
          /\ s.platform = "twitter"
          /\ s.code_verifier # <<>>
          /\ s.expires_at = now + 30 * 60

\* C19: cleanup_expired_sessions deletes exactly the sessions whose expires_at
\* is earlier than the current time: none of them remains, every other session
\* is still stored unchanged, and no other table is modified
C19_SweepDeletesExpired ==
    [][CleanupExpiredSessions =>
          /\ \A s \in sessions : (s \in sessions') = (s.expires_at >= now)
          /\ sessions' \subseteq sessions
          /\ UNCHANGED <<accounts, platformRows, apilogs, analytics,
                         nextAccountId, nextSession>>]_vars

\* the sweep has just run at the second a stored session expires: that session
\* is still stored and a session issued earlier is not
C19_Witness ==
    /\ response = "swept"
    /\ nextSession = 3
    /\ accounts = {}
    /\ \E s \in sessions : s.oauth_state = 2 /\ s.expires_at = now
    /\ ~(\E s \in sessions : s.oauth_state = 1)

\* C20: every session created is eventually removed from storage: one that is
\* stored past its expiry is deleted in time, also when its owner never logs
\* in, calls back or disconnects again
C20_SessionEventuallyRemoved ==
    \A i \in 1..MaxTimedSessions :
        (\E s \in sessions : s.id = i /\ s.expires_at < now)
            ~> ~(\E s \in sessions : s.id = i)

\* what a callback view answers when it aborts after the session checks
CallbackErrors ==
    {"error_connecting", "token_exchange_failed", "no_access_token",
     "profile_fetch_failed"}

\* the token endpoint or the profile endpoint did not answer with success
FailedExchange(x) ==
    \/ x.token.status # HTTP_OK
    \/ x.token.access_token = <<>>
    \/ x.profile.status # HTTP_OK

\* C21: when the token exchange or the profile fetch of a callback does not
\* return success, or the token answer carries no access token, the callback
\* ends with an error message and neither an account nor a profile row is
\* created or modified
C21_FailedExchangeAborts ==
    [][\A x \in Exchanges(TimedIds, Grants) :
          (/\ req[1].pc = "exchange"
           /\ FailedExchange(x)
           /\ CallbackExchange(1, x.token, x.profile))
              => /\ response' \in CallbackErrors
                 /\ req'[1].pc = "idle"
                 /\ accounts' = accounts
                 /\ platformRows' = platformRows]_vars

\* a callback has aborted on the answer of the profile endpoint while an
\* account connected earlier is stored, with its profile row
C21_Witness ==
    /\ response = "profile_fetch_failed"
    /\ Cardinality(accounts) = 1
    /\ Cardinality(platformRows) = 1
    /\ sessions # {}

\* C22: store_tokens given user_data without a non-empty id raises the
\* missing-identity error and creates or modifies no account; the callback
\* reports a connection failure and creates no profile row
C22_MissingIdentityStoresNothing ==
    [][(/\ req[1].pc = "store_tokens"
        /\ req[1].profile_id = <<>>
        /\ CallbackStoreGet(1))
          => /\ response' = "error_missing_identity"
             /\ req'[1].pc = "idle"
             /\ accounts' = accounts
             /\ platformRows' = platformRows]_vars

\* a callback whose profile answer had no id has reported the failure while
\* an account connected earlier is stored, with its profile row
C22_Witness ==
    /\ response = "error_missing_identity"
    /\ Cardinality(accounts) = 1
    /\ Cardinality(platformRows) = 1
    /\ sessions # {}

\* a key of user_data that is present with a non-empty value
NonEmpty(field) == field # <<>> /\ field[1] # ""

\* C23: when store_tokens saves the account it found for the natural key, each
\* display field takes the new value of user_data where that value is
\* non-empty and keeps its previous value where the value is empty or the key
\* is absent
C23_DisplayFieldsKept ==
    [][CallbackStoreSave(1) =>
          \A a \in Stored(1, accounts'), b \in Stored(1, accounts) :
              /\ a.display_name =
                    IF NonEmpty(req[1].user_data.name)
                    THEN req[1].user_data.name[1] ELSE b.display_name
              /\ a.email =
                    IF NonEmpty(req[1].user_data.email)
                    THEN req[1].user_data.email[1] ELSE b.email]_vars

\* the expiry store_tokens computes from expires_in at some time up to t
ExpiryOf(expires_in, token_expires_at, t) ==
    IF token_expiry(expires_in, t) = <<>> THEN token_expires_at = <<>>
    ELSE /\ token_expires_at # <<>>
         /\ token_expires_at[1] - expires_in[1] >= 0
         /\ token_expires_at[1] - expires_in[1] <= t

\* C24: when the callback of a re-authorization saves the account it found,
\* whatever its status was, the identity still has that one row, the row
\* holds the access token, refresh token and expiry of the new exchange and is
\* active, and get_user_social_account and (until the new expiry)
\* get_valid_token succeed for it
C24_ReauthorizationRestores ==
    [][CallbackStoreSave(1) =>
          LET mine == account_by_key(req[1].user, req[1].platform,
                                     req[1].profile_id[1], accounts')
          IN  /\ Cardinality(mine) = 1
              /\ \A a \in mine :
                    /\ \E b \in accounts : b.id = a.id
                    /\ a.access_token = encrypt_token(req[1].access_token)
                    /\ decrypt_token(a.refresh_token) = req[1].refresh_token
                    /\ ExpiryOf(req[1].expires_in, a.token_expires_at, now)
                    /\ a.status = "active"
                    /\ ~is_token_expired(a, now) =>
                          get_valid_token(a, accounts', now).token
                              = req[1].access_token
                    /\ get_user_social_account(req[1].user, req[1].platform,
                                               accounts')
                          = [account |-> <<a>>, raised |-> FALSE]]_vars

\* C29: in every reachable state get_user_social_account raises nothing and
\* returns an account exactly when the user has an active account for the
\* platform, and then an active one
C29_FindActiveNeverRaises ==
    \A u \in ReconnectUsers, p \in Platforms :
        LET got == get_user_social_account(u, p, accounts)
        IN  /\ ~got.raised
            /\ got.account # <<>> =>
                  /\ got.account[1] \in accounts
                  /\ got.account[1].status = "active"
            /\ got.account = <<>> =>
                  ~(\E a \in accounts : /\ a.user = u
                                        /\ a.platform = p
                                        /\ a.status = "active")

\* C25: a token that was encrypted and then decrypted under the same
\* non-empty secret key is the token again, also when it is longer than the
\* key; the empty token encrypts to the empty string and the empty string
\* decrypts to the empty string
C25_DecryptInvertsEncrypt ==
    /\ req[1].pc \in {"encrypted", "decrypted"} /\ req[1].token = <<>>
           => req[1].encrypted_token = <<>>
    /\ req[1].pc = "decrypted" =>
           /\ req[1].decrypted = req[1].token
           /\ req[1].encrypted_token = <<>> => req[1].decrypted = <<>>

C25_Witness ==
    /\ req[1].pc = "decrypted"
    /\ Len(req[1].token) > Len(req[1].key)
    /\ req[1].encrypted_token # req[1].token
    /\ req[1].decrypted = req[1].token

\* C26: no two stored sessions carry the same state, whether
\* create_oauth_session drew the state or was given it, and the lookup by
\* any state finds at most one session
C26_StatesUnique ==
    /\ \A s1 \in sessions, s2 \in sessions :
           s1.oauth_state = s2.oauth_state => s1 = s2
    /\ \A s \in sessions :
           ~get_oauth_session(s.oauth_state, sessions, now).raised

\* C27: a disconnect request with a method other than POST is answered
\* "invalid method", never reaches the revocation call and leaves every row
\* of every table as it was
C27_NonPostDisconnectInert ==
    [][\A u \in OwnerUsers, p \in Platforms :
          Disconnect(1, u, p, "GET")
              => /\ response' = "invalid_method"
                 /\ req'[1].pc = "idle"
                 /\ UNCHANGED db]_vars

\* a disconnect by GET was refused while an account with a stored token and
\* rows of its own is there
C27_Witness ==
    /\ response = "invalid_method"
    /\ \E a \in accounts :
          /\ a.access_token # <<>>
          /\ Len(LogsOf(a.id, apilogs)) > 0 \/ RowsOf(a.id, platformRows) # {}

\* C28: on both platforms a callback carrying the state of another user's
\* session is answered exactly as the same callback would be answered with a
\* state that matches no session
C28_MismatchLooksLikeUnknown ==
    [][\A u \in Users, p \in Platforms, s \in sessions :
          (/\ s.user # u
           /\ Callback(1, u, p, FALSE, TRUE, s.oauth_state))
              => response' =
                     callback_verify(p, u, MaxSessions + 1, sessions,
                                     now).outcome]_vars

\* the account a child row references is stored
Owned(id) == \E a \in accounts : a.id = id

\* C30: every APICallLog row, analytics row, platform row and account-linked
\* session references a stored account, however a disconnect interleaves with
\* API calls and callbacks for the same account
C30_ChildrenHaveOwner ==
    /\ \A i \in 1..Len(apilogs) : Owned(apilogs[i].social_account)
    /\ \A row \in analytics : Owned(row.social_account)
    /\ \A row \in platformRows : Owned(row.social_account)
    /\ \A s \in sessions :
           s.social_account # <<>> => Owned(s.social_account[1])

\* the disconnect has just removed the account that an API call or a
\* callback still in flight holds
C30_Witness ==
    /\ response = "removed"
    /\ req[1].pc \in {"request", "profile"}
    /\ ~Owned(req[1].account[1].id)

\* C31: the code_challenge placed in the authorization URL of a twitter login
\* is the unpadded URL-safe base64 text of the SHA-256 digest of the
\* code_verifier stored with the session of the URL's state, and the URL
\* advertises the method S256
C31_ChallengeMatchesVerifier ==
    \A k \in 1..Len(location) :
        LET u == location[k] IN
        u.platform = "twitter" =>
            \E s \in sessions :
                /\ s.oauth_state = u.state
                /\ s.code_verifier # <<>>
                /\ u.code_challenge =
                       <<rstrip_pad(B64Encode(sha256(s.code_verifier)))>>
                /\ \A i \in 1..Len(u.code_challenge[1]) :
                       u.code_challenge[1][i] # Pad
                /\ u.code_challenge_method = <<"S256">>

\* a twitter login has just redirected with a challenge that differs from
\* the verifier it stored
C31_Witness ==
    /\ response = "redirect_to_authorization"
    /\ \E s \in sessions :
          /\ s.platform = "twitter"
          /\ location # <<>>
          /\ location[1].state = s.oauth_state
          /\ location[1].code_challenge # <<s.code_verifier>>
          /\ Len(location[1].code_challenge[1]) > Len(s.code_verifier)

\* C32: no field of an APICallLog row carries anything that depends on an
\* access or refresh token, raw or encrypted: the rows logged are the same
\* whatever the tokens are
C32_NoTokenInLogs ==
    \A i \in 1..Len(apilogs) : apilogs[i].error_message = <<>>

\* C33: a save of an account that was read before a disconnect deleted it
\* (by store_tokens finding the account, or by get_valid_token marking it
\* expired) does not bring the deleted row back: these steps add no account
C33_SaveNeverRecreates ==
    [][(CallbackStoreSave(1) \/ ApiGetValidToken(1))
          => \A a \in accounts' : \E b \in accounts : b.id = a.id]_vars

\* C34: a get_valid_token that saves its 'expired' marking leaves the tokens
\* and the expiry that are stored at that moment as they are, and leaves the
\* status alone when the stored token has not expired: what a
\* re-authorization wrote in between is not overwritten
C34_MarkingKeepsNewTokens ==
    [][ApiGetValidToken(2) =>
          \A a \in accounts :
              \E b \in accounts' :
                  /\ b.id = a.id
                  /\ b.access_token = a.access_token
                  /\ b.refresh_token = a.refresh_token
                  /\ b.token_expires_at = a.token_expires_at
                  /\ ~is_token_expired(a, now) => b.status = a.status]_vars

\* C35: whenever no login-initiate is under way, at most one session tagged
\* with a given user and platform is stored, however the login-initiate
\* requests of that user for that platform interleaved
C35_OneTaggedSession ==
    Quiet =>
        \A u \in Users, p \in Platforms :
            Cardinality({s \in sessions : s.user = u /\ s.platform = p}) <= 1

\* C36: an account whose status is 'expired' has a token expiry that is set
\* and lies in the past, whatever store_tokens, get_valid_token and metric
\* updates did and however they interleaved
C36_ExpiredMeansPastExpiry ==
    \A a \in accounts :
        a.status = "expired" =>
            /\ a.token_expires_at # <<>>
            /\ a.token_expires_at[1] < now

\* an account was re-authorized and then marked expired again by a client
\* that had loaded it before the re-authorization
C36_Witness ==
    /\ response = "no_payload"
    /\ \E a \in accounts :
          /\ a.status = "expired"
          /\ a.token_expires_at # <<>>
          /\ a.token_expires_at[1] < now
          /\ nextSession = MaxStaleSessions + 1

\* C37: a callback that passed the session checks and then ends with an
\* error (failed exchange or profile fetch, no access token, no platform
\* user id, an exception while storing) leaves the sessions as they were, and
\* its state is accepted again for the same user while the session has not
\* expired
C37_FailedCallbackKeepsSession ==
    [][(/\ req[1].kind = "callback"
        /\ req[1].pc # "idle"
        /\ response' \in CallbackErrors \cup {"error_missing_identity"})
          => /\ sessions' = sessions
             /\ req[1].session[1] \in sessions'
             /\ ~is_expired(req[1].session[1], now)
                    => callback_verify(req[1].platform, req[1].user,
                           req[1].session[1].oauth_state, sessions',
                           now).outcome = ""]_vars

\* a callback has just failed at the token endpoint and the session of its
\* state, not yet expired, is still stored
C37_Witness ==
    /\ response = "token_exchange_failed"
    /\ \E s \in sessions : ~is_expired(s, now) /\ s.user \in TimedUsers

\* C38: the code_verifier a twitter callback posts to the token endpoint is
\* the verifier stored with the session of the state it carries, that
\* session belongs to the user making the callback, and no verifier of a
\* session of another user or of another attempt is posted
C38_VerifierOfOwnAttempt ==
    (/\ req[1].kind = "callback"
     /\ req[1].platform = "twitter"
     /\ req[1].pc = "exchange"
     /\ query # <<>>)
        => LET sent == token_data(req[1]).code_verifier
               n == query[1]
               u == req[1].user
           IN  /\ \E s \in sessions :
                      /\ s.oauth_state = n
                      /\ s.user = u
                      /\ s.code_verifier = sent
               /\ \A s \in sessions :
                      (/\ s.user # u \/ s.oauth_state # n
                       /\ s.code_verifier # <<>>)
                          => s.code_verifier # sent

\* a twitter callback is about to post its verifier while a twitter session
\* of another user, with another verifier, is stored
C38_Witness ==
    /\ req[1].kind = "callback"
    /\ req[1].pc = "exchange"
    /\ req[1].platform = "twitter"
    /\ query # <<>>
    /\ \E s \in sessions :
          /\ s.user # req[1].user
          /\ s.platform = "twitter"
          /\ s.code_verifier # <<>>

\* the rows that do not belong to (user, platform) are the same after the
\* step as before it; ids are the accounts of (user, platform) before it
Untouched(user, platform) ==
    LET ids == {a.id : a \in {b \in accounts :
                                 b.user = user /\ b.platform = platform}}
        other(s) == ~(s.user = user /\ s.platform = platform)
        foreign(row) == row.social_account \notin ids
    IN  /\ {a \in accounts' : other(a)} = {a \in accounts : other(a)}
        /\ {s \in sessions' : other(s)} = {s \in sessions : other(s)}
        /\ SelectSeq(apilogs', foreign) = SelectSeq(apilogs, foreign)
        /\ {row \in platformRows' : foreign(row)}
               = {row \in platformRows : foreign(row)}

\* C39: a login-initiate or a disconnect of user u for platform p changes no
\* account, session, log or profile row of another user or of another
\* platform of u; a login-initiate changes no account and no log at all
C39_OtherRowsUntouched ==
    [][/\ \A u \in Users, p \in Platforms :
            /\ Login(1, u, p)
                   => Untouched(u, p) /\ UNCHANGED <<accounts, apilogs>>
            /\ \E m \in {"GET", "POST"} : Disconnect(1, u, p, m)
                   => Untouched(u, p)
       /\ req[1].kind = "login"
              => /\ Untouched(req[1].user, req[1].platform)
                 /\ UNCHANGED <<accounts, apilogs>>
       /\ req[1].kind = "disconnect"
              => Untouched(req[1].user, req[1].platform)]_vars

\* a disconnect has removed an account while another account, of another
\* user or platform, is stored with its profile row
C39_Witness ==
    /\ response = "removed"
    /\ \E a \in accounts : RowsOf(a.id, platformRows) # {}

\* C40: when store_tokens is given an expires_in of n >= 0 seconds, the account
\* it writes has token_expires_at = now + n and so is taken for expired exactly
\* when more than n seconds have passed; the expiry is unset only when the
\* exchange named no expires_in
C40_ExpiryFromExpiresIn ==
    [][\A p \in Platforms, i \in PlatformUserIds, g \in ExchangeGrants :
          StoreTokens("u1", p, i, g) =>
              \A b \in account_by_key("u1", p, i, accounts') :
                  IF g.expires_in = <<>> THEN b.token_expires_at = <<>>
                  ELSE /\ b.token_expires_at = <<now + g.expires_in[1]>>
                       /\ ~is_token_expired(b, now + g.expires_in[1])
                       /\ is_token_expired(b, now + g.expires_in[1] + 1)]_vars
====
